---- MODULE Spec2Model ----
(***************************************************************************)
(* The compilation driver of language/compiler/src/lib.rs (struct          *)
(* Compiler and its finish operations) and the canonical (de)serialization *)
(* of EventKey / EventHandle of types/src/event.rs.                        *)
(*                                                                         *)
(* A Compiler value is built by the caller (struct literal over the pub    *)
(* fields, add_deps), optionally cloned (#[derive(Clone)]), and consumed   *)
(* by one finish operation (into_...), which takes self by value.  Each    *)
(* finish operation is synchronous and is one action.  The parser, the     *)
(* bytecode emitter, the serializer and the stdlib provider live in other  *)
(* crates; they are modelled from their contract in spec.md.               *)
(***************************************************************************)
EXTENDS Integers, Sequences, FiniteSets, TLC

VARIABLES self, phase, op, args, depsArg, out, ran, stdlib_loaded, resLog,
          ev_handle, ev_wire, ev_result, ev_pc

vars == <<self, phase, op, args, depsArg, out, ran, stdlib_loaded, resLog,
          ev_handle, ev_wire, ev_result, ev_pc>>

compilerVars == <<self, phase, op, args, depsArg, out, ran, stdlib_loaded, resLog>>
eventVars == <<ev_handle, ev_wire, ev_result, ev_pc>>

----------------------------------------------------------------------------
(* Bounds of the model *)

\* longest extra_deps list a caller supplies
MaxExtras == 2
\* most module definitions in one source unit
MaxModules == 2
\* most public add_std_deps calls on one Compiler before it is finished
MaxPublicCalls == 2

Range(s) == {s[i] : i \in 1..Len(s)}

RECURSIVE SeqsUpTo(_, _)
SeqsUpTo(S, n) ==
    IF n = 0 THEN {<<>>}
    ELSE LET shorter == SeqsUpTo(S, n - 1)
         IN shorter \cup {Append(s, x) : s \in {t \in shorter : Len(t) = n - 1}, x \in S}

\* VerifiedModule values a caller can supply as extra dependencies
ExtraPool == {"X1", "X2"}
ExtrasLists == SeqsUpTo(ExtraPool, MaxExtras)
\* sender addresses
Addresses == {0, 1}
\* TransactionArgument lists
ArgLists == {<<>>, <<"a1", "a2">>, <<"a2", "a1">>}
\* the `deps: Vec<CompiledModule>` argument of into_program_2
DepsArgs == {<<>>, <<"X1">>}
\* names a source unit can import: a stdlib module and a non-stdlib module
ImportSets == SUBSET {"S1", "X1"}

(* A source unit.  Malformed text has no structure; well-formed text holds a *)
(* script, a list of module definitions and the names it imports.  "mL" and  *)
(* "mainL" are definitions whose compiled form exceeds what the binary       *)
(* format can encode.                                                        *)
Malformed == [wellformed |-> FALSE, modules |-> <<>>, script |-> "", imports |-> {}]
Sources ==
    {Malformed} \cup
    [wellformed : {TRUE}, modules : SeqsUpTo({"m", "mL"}, MaxModules),
     script : {"main", "mainL"}, imports : ImportSets]

Compilers ==
    [address : Addresses, code : Sources, skip_stdlib_deps : BOOLEAN,
     extra_deps : ExtrasLists]

----------------------------------------------------------------------------
(* Collaborators outside this crate *)

\* stdlib::stdlib_modules(): the fixed baseline, in its fixed order
stdlib_modules == <<"S1", "S2">>

\* ir_to_bytecode::parser::parse_program
parse_program(code) ==
    IF code.wellformed
    THEN [ok |-> TRUE, modules |-> code.modules, script |-> code.script,
          imports |-> code.imports]
    ELSE [ok |-> FALSE, modules |-> <<>>, script |-> "", imports |-> {}]

NoArtifact == [kind |-> "none", src |-> "", idx |-> 0, addr |-> 0, links |-> {}]
NoProgram == [script |-> NoArtifact, modules |-> <<>>]

\* the emitter resolves every imported name against the dependency set
Links(imports, dset) == imports \subseteq Range(dset)

\* ir_to_bytecode::compiler::compile_program
compile_program(address, parsed, dset) ==
    IF Links(parsed.imports, dset)
    THEN [ok |-> TRUE,
          program |->
            [script |-> [kind |-> "script", src |-> parsed.script, idx |-> 0,
                         addr |-> address, links |-> parsed.imports],
             modules |-> [i \in 1..Len(parsed.modules) |->
                            [kind |-> "module", src |-> parsed.modules[i], idx |-> i,
                             addr |-> address, links |-> parsed.imports]]]]
    ELSE [ok |-> FALSE, program |-> NoProgram]

\* ir_to_bytecode::compiler::compile_program_2
compile_program_2(address, parsed, dset) == compile_program(address, parsed, dset)

\* ir_to_bytecode::compiler::compile_module
compile_module(address, parsed, i, dset) ==
    IF Links(parsed.imports, dset)
    THEN [ok |-> TRUE,
          module |-> [kind |-> "module", src |-> parsed.modules[i], idx |-> i,
                      addr |-> address, links |-> parsed.imports]]
    ELSE [ok |-> FALSE, module |-> NoArtifact]

LinkBytes(links) ==
    (IF "S1" \in links THEN <<83>> ELSE <<>>) \o (IF "X1" \in links THEN <<88>> ELSE <<>>)

\* CompiledScript::serialize / CompiledModule::serialize
serialize(artifact) ==
    IF artifact.src \in {"mL", "mainL"} \/ artifact.kind = "none"
    THEN [ok |-> FALSE, bytes |-> <<>>]
    ELSE [ok |-> TRUE,
          bytes |-> <<(IF artifact.kind = "script" THEN 2 ELSE 1), artifact.addr,
                      artifact.idx, Cardinality(artifact.links)>>
                    \o LinkBytes(artifact.links)]

\* types::transaction::Program::new
Program_new(script, modules, a) == [code |-> script, modules |-> modules, args |-> a]
NoPayload == [code |-> <<>>, modules |-> <<>>, args |-> <<>>]

----------------------------------------------------------------------------
(* What a finish operation leaves behind *)

\* what the caller receives; every field keeps its default unless the operation returns it
NoRet == [program |-> NoProgram, script |-> NoArtifact, module |-> NoArtifact,
          bytes |-> <<>>, payload |-> NoPayload, dset |-> <<>>, modules |-> <<>>]

\* what happened inside the call: the stages run, the dependency sets handed to the
\* emitter, the resolutions made, what the emitter produced, self afterwards, and
\* whether stdlib_modules() was called
NoGhost(s) == [trace |-> <<>>, emitted |-> <<>>, resolved |-> <<>>, program |-> NoProgram,
               module |-> NoArtifact, self |-> s, touched |-> FALSE]

NoOut == [status |-> "None", err |-> "", ret |-> NoRet, g |-> NoGhost(Malformed)]

Ok(r, g) == [status |-> "Ok", err |-> "", ret |-> r, g |-> g]
Err(e, g) == [status |-> "Err", err |-> e, ret |-> NoRet, g |-> g]
Panic(msg, g) == [status |-> "Panic", err |-> msg, ret |-> NoRet, g |-> g]

Stage(g, name) == [g EXCEPT !.trace = Append(g.trace, name)]

----------------------------------------------------------------------------
(* impl Compiler *)

add_deps(s, d) == [s EXCEPT !.extra_deps = d]

\* deps with the extras placed before the baseline
deps_extras_first(s) ==
    LET extra_deps == s.extra_deps
        s2 == [s EXCEPT !.extra_deps = <<>>]
    IN IF s.skip_stdlib_deps
       THEN [self |-> s2, dset |-> extra_deps, touched |-> FALSE, consumed |-> TRUE,
             policy |-> "default", input |-> extra_deps]
       ELSE [self |-> s2, dset |-> extra_deps \o stdlib_modules, touched |-> TRUE,
             consumed |-> TRUE, policy |-> "default", input |-> extra_deps]

\* deps that finds the baseline empty until some earlier call has loaded it
deps_unloaded_baseline(s) ==
    LET extra_deps == s.extra_deps
        s2 == [s EXCEPT !.extra_deps = <<>>]
    IN IF s.skip_stdlib_deps
       THEN [self |-> s2, dset |-> extra_deps, touched |-> FALSE, consumed |-> TRUE,
             policy |-> "default", input |-> extra_deps]
       ELSE [self |-> s2,
             dset |-> (IF stdlib_loaded THEN stdlib_modules ELSE <<>>) \o extra_deps,
             touched |-> TRUE, consumed |-> TRUE, policy |-> "default",
             input |-> extra_deps]

deps(s) ==
    LET extra_deps == s.extra_deps
        s2 == [s EXCEPT !.extra_deps = <<>>]
    IN IF s.skip_stdlib_deps
       THEN [self |-> s2, dset |-> extra_deps, touched |-> FALSE, consumed |-> TRUE,
             policy |-> "default", input |-> extra_deps]
       ELSE [self |-> s2, dset |-> stdlib_modules \o extra_deps, touched |-> TRUE,
             consumed |-> TRUE, policy |-> "default", input |-> extra_deps]

\* add_std_deps that honours the skip flag, as deps does
add_std_deps_honours_skip(s, deps2) ==
    [self |-> s,
     dset |-> IF s.skip_stdlib_deps THEN deps2 ELSE stdlib_modules \o deps2,
     touched |-> ~s.skip_stdlib_deps, consumed |-> FALSE, policy |-> "forced",
     input |-> deps2]

\* add_std_deps whose mem::replace takes self.extra_deps instead of its argument
add_std_deps_takes_self(s, deps2) ==
    [self |-> [s EXCEPT !.extra_deps = <<>>], dset |-> stdlib_modules \o s.extra_deps,
     touched |-> TRUE, consumed |-> TRUE, policy |-> "forced", input |-> deps2]

add_std_deps(s, deps2) ==
    [self |-> s, dset |-> stdlib_modules \o deps2, touched |-> TRUE, consumed |-> FALSE,
     policy |-> "forced", input |-> deps2]

\* a resolution entered in the ghost record
Resolved(g, d) ==
    [g EXCEPT !.trace = Append(g.trace, "resolve"),
              !.resolved = Append(g.resolved, [policy |-> d.policy, input |-> d.input,
                                               dset |-> d.dset, consumed |-> d.consumed]),
              !.self = d.self,
              !.touched = g.touched \/ d.touched]

Emitted(g, dset) ==
    [g EXCEPT !.trace = Append(g.trace, "emit"), !.emitted = Append(g.emitted, dset)]

compile_impl_2(s, g0, dset) ==
    LET parsed == parse_program(s.code)
        g1 == Stage(g0, "parse")
    IN IF ~parsed.ok THEN [status |-> "Err", err |-> "ParseError", program |-> NoProgram, g |-> g1]
       ELSE LET c == compile_program_2(s.address, parsed, dset)
                g2 == Emitted(g1, dset)
            IN IF ~c.ok
               THEN [status |-> "Err", err |-> "CompileError", program |-> NoProgram, g |-> g2]
               ELSE [status |-> "Ok", err |-> "", program |-> c.program,
                     g |-> [g2 EXCEPT !.program = c.program]]

compile_impl(s) ==
    LET parsed == parse_program(s.code)
        g1 == Stage(NoGhost(s), "parse")
    IN IF ~parsed.ok
       THEN [status |-> "Err", err |-> "ParseError", program |-> NoProgram, dset |-> <<>>, g |-> g1]
       ELSE LET d == deps(s)
                g2 == Resolved(g1, d)
                c == compile_program(s.address, parsed, d.dset)
                g3 == Emitted(g2, d.dset)
            IN IF ~c.ok
               THEN [status |-> "Err", err |-> "CompileError", program |-> NoProgram,
                     dset |-> <<>>, g |-> g3]
               ELSE [status |-> "Ok", err |-> "", program |-> c.program, dset |-> d.dset,
                     g |-> [g3 EXCEPT !.program = c.program]]

compile_mod(s) ==
    LET parsed == parse_program(s.code)
        g1 == Stage(NoGhost(s), "parse")
    IN IF ~parsed.ok
       THEN [status |-> "Err", err |-> "ParseError", module |-> NoArtifact, dset |-> <<>>, g |-> g1]
       ELSE LET d == deps(s)
                g2 == Resolved(g1, d)
            IN IF Len(parsed.modules) # 1
               THEN [status |-> "Panic", err |-> "Must have single module",
                     module |-> NoArtifact, dset |-> <<>>, g |-> g2]
               ELSE LET c == compile_module(s.address, parsed, 1, d.dset)
                        g3 == Emitted(g2, d.dset)
                    IN IF ~c.ok
                       THEN [status |-> "Err", err |-> "CompileError", module |-> NoArtifact,
                             dset |-> <<>>, g |-> g3]
                       ELSE [status |-> "Ok", err |-> "", module |-> c.module,
                             dset |-> d.dset, g |-> [g3 EXCEPT !.module = c.module]]

\* a failure of the compile step, passed on by `?`
Propagate(c) ==
    IF c.status = "Panic" THEN Panic(c.err, c.g) ELSE Err(c.err, c.g)

into_compiled_program(s) ==
    LET c == compile_impl(s)
    IN IF c.status # "Ok" THEN Propagate(c)
       ELSE Ok([NoRet EXCEPT !.program = c.program], c.g)

into_compiled_program_and_deps(s) ==
    LET c == compile_impl(s)
    IN IF c.status # "Ok" THEN Propagate(c)
       ELSE Ok([NoRet EXCEPT !.program = c.program, !.dset = c.dset], c.g)

into_script(s) ==
    LET c == compile_impl(s)
    IN IF c.status # "Ok" THEN Propagate(c)
       ELSE Ok([NoRet EXCEPT !.script = c.program.script], c.g)

into_script_blob(s) ==
    LET c == compile_impl(s)
    IN IF c.status # "Ok" THEN Propagate(c)
       ELSE LET b == serialize(c.program.script)
                g == Stage(c.g, "serialize")
            IN IF ~b.ok THEN Err("SerializationError", g)
               ELSE Ok([NoRet EXCEPT !.bytes = b.bytes], g)

into_compiled_module(s) ==
    LET c == compile_mod(s)
    IN IF c.status # "Ok" THEN Propagate(c)
       ELSE Ok([NoRet EXCEPT !.module = c.module], c.g)

into_module_blob(s) ==
    LET c == compile_mod(s)
    IN IF c.status # "Ok" THEN Propagate(c)
       ELSE LET b == serialize(c.module)
                g == Stage(c.g, "serialize")
            IN IF ~b.ok THEN Err("SerializationError", g)
               ELSE Ok([NoRet EXCEPT !.bytes = b.bytes], g)

\* for m in modules { m.serialize(&mut module).expect(..); serialized_modules.push(module) }
\* [ok, list]: ok is FALSE when some serialize call returned Err (the expect panics)
\* the loop with each serialized module inserted at the front of the list
RECURSIVE serialized_modules_front(_, _)
serialized_modules_front(modules, acc) ==
    IF modules = <<>> THEN [ok |-> TRUE, list |-> acc]
    ELSE LET b == serialize(Head(modules))
         IN IF ~b.ok THEN [ok |-> FALSE, list |-> acc]
            ELSE serialized_modules_front(Tail(modules), <<b.bytes>> \o acc)

RECURSIVE serialized_modules(_, _)
serialized_modules(modules, acc) ==
    IF modules = <<>> THEN [ok |-> TRUE, list |-> acc]
    ELSE LET b == serialize(Head(modules))
         IN IF ~b.ok THEN [ok |-> FALSE, list |-> acc]
            ELSE serialized_modules(Tail(modules), Append(acc, b.bytes))

into_program_and_deps(s, a) ==
    LET c == compile_impl(s)
    IN IF c.status # "Ok" THEN Propagate(c)
       ELSE LET b == serialize(c.program.script)
                g == Stage(c.g, "serialize")
            IN IF ~b.ok THEN Err("SerializationError", g)
               ELSE LET ms == serialized_modules(c.program.modules, <<>>)
                    IN IF ~ms.ok THEN Panic("module must serialize", g)
                       ELSE Ok([NoRet EXCEPT !.payload = Program_new(b.bytes, ms.list, a),
                                             !.dset = c.dset,
                                             !.modules = c.program.modules], g)

into_program(s, a) ==
    LET c == compile_impl(s)
    IN IF c.status # "Ok" THEN Propagate(c)
       ELSE LET b == serialize(c.program.script)
                g == Stage(c.g, "serialize")
            IN IF ~b.ok THEN Err("SerializationError", g)
               ELSE LET ms == serialized_modules(c.program.modules, <<>>)
                    IN IF ~ms.ok THEN Panic("module must serialize", g)
                       ELSE Ok([NoRet EXCEPT !.payload = Program_new(b.bytes, ms.list, a)], g)

into_program_2(s, a, d) ==
    LET deps_std == add_std_deps(s, s.extra_deps)
        g0 == Resolved(NoGhost(s), deps_std)
        c == compile_impl_2(deps_std.self, g0, deps_std.dset)
    IN IF c.status # "Ok" THEN Propagate(c)
       ELSE LET b == serialize(c.program.script)
                g == Stage(c.g, "serialize")
            IN IF ~b.ok THEN Err("SerializationError", g)
               ELSE LET ms == serialized_modules(c.program.modules, <<>>)
                    IN IF ~ms.ok THEN Panic("module must serialize", g)
                       ELSE Ok([NoRet EXCEPT !.payload = Program_new(b.bytes, ms.list, a)], g)

----------------------------------------------------------------------------
(* The finish operations as the caller sees them *)

ProgramOps == {"into_compiled_program", "into_compiled_program_and_deps", "into_script",
               "into_script_blob", "into_program_and_deps", "into_program"}
ModuleOps == {"into_compiled_module", "into_module_blob"}
PayloadOps == {"into_program_and_deps", "into_program", "into_program_2"}

Run(o, s, a, d) ==
    CASE o = "into_compiled_program" -> into_compiled_program(s)
      [] o = "into_compiled_program_and_deps" -> into_compiled_program_and_deps(s)
      [] o = "into_script" -> into_script(s)
      [] o = "into_script_blob" -> into_script_blob(s)
      [] o = "into_compiled_module" -> into_compiled_module(s)
      [] o = "into_module_blob" -> into_module_blob(s)
      [] o = "into_program_and_deps" -> into_program_and_deps(s, a)
      [] o = "into_program" -> into_program(s, a)
      [] o = "into_program_2" -> into_program_2(s, a, d)

\* the first of two identical Compiler values (the original and its clone) is finished
Finish(o, a, d) ==
    /\ phase = "config"
    /\ LET r == Run(o, self, a, d)
       IN /\ out' = [out EXCEPT ![1] = r]
          /\ stdlib_loaded' = (stdlib_loaded \/ r.g.touched)
    /\ phase' = "done"
    /\ op' = o
    /\ args' = a
    /\ depsArg' = d
    /\ ran' = 1
    /\ UNCHANGED <<self, resLog, eventVars>>

IntoCompiledProgram == Finish("into_compiled_program", <<>>, <<>>)
IntoCompiledProgramAndDeps == Finish("into_compiled_program_and_deps", <<>>, <<>>)
IntoScript == Finish("into_script", <<>>, <<>>)
IntoScriptBlob == Finish("into_script_blob", <<>>, <<>>)
IntoCompiledModule == Finish("into_compiled_module", <<>>, <<>>)
IntoModuleBlob == Finish("into_module_blob", <<>>, <<>>)
IntoProgramAndDeps == \E a \in ArgLists : Finish("into_program_and_deps", a, <<>>)
IntoProgram == \E a \in ArgLists : Finish("into_program", a, <<>>)
IntoProgram2 == \E a \in ArgLists, d \in DepsArgs : Finish("into_program_2", a, d)

\* the clone (same code, address, flag and extras) is finished by the same operation,
\* after the first request was served
FinishClone ==
    /\ phase = "done"
    /\ ran = 1
    /\ LET r == Run(op, self, args, depsArg)
       IN /\ out' = [out EXCEPT ![2] = r]
          /\ stdlib_loaded' = (stdlib_loaded \/ r.g.touched)
    /\ ran' = 2
    /\ UNCHANGED <<self, phase, op, args, depsArg, resLog, eventVars>>

\* the owner sets the pub fields of the Compiler it is building
SetCode ==
    /\ phase = "config"
    /\ \E c \in Sources :
         /\ c # self.code
         /\ self' = [self EXCEPT !.code = c]
    /\ UNCHANGED <<phase, op, args, depsArg, out, ran, stdlib_loaded, resLog, eventVars>>

SetAddress ==
    /\ phase = "config"
    /\ \E a \in Addresses :
         /\ a # self.address
         /\ self' = [self EXCEPT !.address = a]
    /\ UNCHANGED <<phase, op, args, depsArg, out, ran, stdlib_loaded, resLog, eventVars>>

SetSkipStdlibDeps ==
    /\ phase = "config"
    /\ self' = [self EXCEPT !.skip_stdlib_deps = ~self.skip_stdlib_deps]
    /\ UNCHANGED <<phase, op, args, depsArg, out, ran, stdlib_loaded, resLog, eventVars>>

\* pub fn add_deps, called by the owner before the finish operation
AddDeps ==
    /\ phase = "config"
    /\ \E d \in ExtrasLists :
         /\ d # self.extra_deps
         /\ self' = add_deps(self, d)
    /\ resLog' = <<>>
    /\ UNCHANGED <<phase, op, args, depsArg, out, ran, stdlib_loaded, eventVars>>

\* pub fn add_std_deps, called by the owner before the finish operation, with the
\* Compiler's own extras or another list
PublicArgs(s) == {s.extra_deps, <<>>, <<"X2">>}

AddStdDeps ==
    /\ phase = "config"
    /\ Len(resLog) < MaxPublicCalls
    /\ \E d2 \in PublicArgs(self) :
         LET r == add_std_deps(self, d2)
         IN /\ self' = r.self
            /\ resLog' = Append(resLog, [policy |-> r.policy, input |-> r.input,
                                         dset |-> r.dset, consumed |-> r.consumed])
            /\ stdlib_loaded' = (stdlib_loaded \/ r.touched)
    /\ UNCHANGED <<phase, op, args, depsArg, out, ran, eventVars>>

\* #[derive(Default)]: zero address, empty text (which does not parse), flag off, no extras
Compiler_default ==
    [address |-> 0, code |-> Malformed, skip_stdlib_deps |-> FALSE, extra_deps |-> <<>>]

\* the process serves the next request: a new Compiler value; the loaded baseline stays
NewRequest ==
    /\ phase = "done"
    /\ self' = Compiler_default
    /\ phase' = "config"
    /\ op' = ""
    /\ args' = <<>>
    /\ depsArg' = <<>>
    /\ out' = [i \in {1, 2} |-> NoOut]
    /\ ran' = 0
    /\ resLog' = <<>>
    /\ UNCHANGED <<stdlib_loaded, eventVars>>

EventIdle ==
    /\ ev_handle = [key |-> <<>>, count |-> <<0, 0, 0, 0>>]
    /\ ev_wire = <<>>
    /\ ev_result = [ok |-> FALSE, handle |-> [key |-> <<>>, count |-> <<0, 0, 0, 0>>]]
    /\ ev_pc = "idle"

CompilerInit(cs) ==
    /\ self \in cs
    /\ phase = "config"
    /\ op = ""
    /\ args = <<>>
    /\ depsArg = <<>>
    /\ out = [i \in {1, 2} |-> NoOut]
    /\ ran = 0
    /\ stdlib_loaded = FALSE
    /\ resLog = <<>>

Init == CompilerInit({Compiler_default}) /\ EventIdle

Next ==
    \/ SetCode
    \/ SetAddress
    \/ SetSkipStdlibDeps
    \/ AddDeps
    \/ IntoCompiledProgram
    \/ IntoCompiledProgramAndDeps
    \/ IntoScript
    \/ IntoScriptBlob
    \/ IntoCompiledModule
    \/ IntoModuleBlob
    \/ IntoProgramAndDeps
    \/ IntoProgram
    \/ IntoProgram2
    \/ FinishClone
    \/ NewRequest

Spec == Init /\ [][Next]_vars

----------------------------------------------------------------------------
(* One Compiler value under the public interface the owner has before the   *)
(* finish operation: add_deps, add_std_deps, then one finish operation.     *)

ConfigSources ==
    {Malformed,
     [wellformed |-> TRUE, modules |-> <<"m">>, script |-> "main", imports |-> {"S1"}],
     [wellformed |-> TRUE, modules |-> <<>>, script |-> "main", imports |-> {"X1"}]}

InitConfig ==
    /\ CompilerInit({c \in Compilers : c.address = 0 /\ c.code \in ConfigSources})
    /\ EventIdle

NextConfig ==
    \/ AddDeps
    \/ AddStdDeps
    \/ IntoCompiledProgram
    \/ IntoCompiledProgramAndDeps
    \/ IntoScript
    \/ IntoScriptBlob
    \/ IntoCompiledModule
    \/ IntoModuleBlob
    \/ IntoProgramAndDeps
    \/ IntoProgram
    \/ IntoProgram2

SpecConfig == InitConfig /\ [][NextConfig]_vars

----------------------------------------------------------------------------
(* types/src/event.rs: EventKey and EventHandle on the wire *)

EVENT_KEY_LENGTH == 32

\* largest seed of the generated keys
MaxKeySeed == 2

\* a u64 as four 16-bit limbs, least significant first
U64s == {<<0, 0, 0, 0>>, <<1, 0, 0, 0>>, <<256, 0, 0, 0>>, <<65535, 65535, 0, 0>>,
         <<513, 0, 1027, 0>>, <<65535, 65535, 65535, 65535>>}

KeyBytes(seed, n) == [i \in 1..n |-> (seed * 37 + i * (seed + 1)) % 256]
EventKeys == {KeyBytes(seed, EVENT_KEY_LENGTH) : seed \in 0..MaxKeySeed}
\* byte strings that arrive as the key field of a wire
WireKeyLengths == {0, 1, EVENT_KEY_LENGTH - 1, EVENT_KEY_LENGTH, EVENT_KEY_LENGTH + 1}

\* canonical_serialization::SimpleSerializer
encode_u64(v) ==
    <<v[1] % 256, v[1] \div 256, v[2] % 256, v[2] \div 256,
      v[3] % 256, v[3] \div 256, v[4] % 256, v[4] \div 256>>

encode_u32(n) ==
    <<n % 256, (n \div 256) % 256, (n \div 65536) % 256, (n \div 16777216) % 256>>

encode_bytes(b) == encode_u32(Len(b)) \o b

\* canonical_serialization::SimpleDeserializer; each returns what is left of the wire
decode_u64(w) ==
    IF Len(w) < 8 THEN [ok |-> FALSE, value |-> <<0, 0, 0, 0>>, rest |-> <<>>]
    ELSE [ok |-> TRUE,
          value |-> <<w[1] + 256 * w[2], w[3] + 256 * w[4], w[5] + 256 * w[6], w[7] + 256 * w[8]>>,
          rest |-> SubSeq(w, 9, Len(w))]

decode_u32(w) ==
    IF Len(w) < 4 THEN [ok |-> FALSE, value |-> 0, rest |-> <<>>]
    ELSE [ok |-> TRUE,
          value |-> w[1] + 256 * w[2] + 65536 * w[3] + 16777216 * (w[4] % 128),
          rest |-> SubSeq(w, 5, Len(w))]

decode_bytes(w) ==
    LET n == decode_u32(w)
    IN IF ~n.ok \/ Len(n.rest) < n.value THEN [ok |-> FALSE, value |-> <<>>, rest |-> <<>>]
       ELSE [ok |-> TRUE, value |-> SubSeq(n.rest, 1, n.value),
             rest |-> SubSeq(n.rest, n.value + 1, Len(n.rest))]

NoKey == <<>>
NoHandle == [key |-> NoKey, count |-> <<0, 0, 0, 0>>]

\* try_from without the length check
EventKey_try_from_unchecked(bytes) ==
    [ok |-> TRUE, key |-> bytes]

\* impl TryFrom<&[u8]> for EventKey
EventKey_try_from(bytes) ==
    IF Len(bytes) = EVENT_KEY_LENGTH
    THEN [ok |-> TRUE, key |-> [i \in 1..EVENT_KEY_LENGTH |-> bytes[i]]]
    ELSE [ok |-> FALSE, key |-> NoKey]

\* impl CanonicalSerialize for EventKey
EventKey_serialize(key) == encode_bytes(key)

\* impl CanonicalDeserialize for EventKey
EventKey_deserialize(w) ==
    LET bytes == decode_bytes(w)
    IN IF ~bytes.ok THEN [ok |-> FALSE, key |-> NoKey, rest |-> <<>>]
       ELSE LET k == EventKey_try_from(bytes.value)
            IN [ok |-> k.ok, key |-> k.key, rest |-> IF k.ok THEN bytes.rest ELSE <<>>]

\* impl CanonicalSerialize for EventHandle
EventHandle_serialize(h) == encode_u64(h.count) \o EventKey_serialize(h.key)

\* impl CanonicalDeserialize for EventHandle
EventHandle_deserialize(w) ==
    LET count == decode_u64(w)
    IN IF ~count.ok THEN [ok |-> FALSE, handle |-> NoHandle]
       ELSE LET key == EventKey_deserialize(count.rest)
            IN IF ~key.ok THEN [ok |-> FALSE, handle |-> NoHandle]
               ELSE [ok |-> TRUE, handle |-> [key |-> key.key, count |-> count.value]]

\* EventHandle::new(key, count)
NewHandle ==
    /\ ev_pc \in {"idle", "decoded"}
    /\ \E k \in EventKeys, c \in U64s : ev_handle' = [key |-> k, count |-> c]
    /\ ev_wire' = <<>>
    /\ ev_result' = [ok |-> FALSE, handle |-> NoHandle]
    /\ ev_pc' = "new"
    /\ UNCHANGED compilerVars

SerializeHandle ==
    /\ ev_pc = "new"
    /\ ev_wire' = EventHandle_serialize(ev_handle)
    /\ ev_pc' = "wire"
    /\ UNCHANGED <<ev_handle, ev_result, compilerVars>>

\* bytes that some other writer produced: a count, then a length-prefixed byte string
\* of any length, whole or cut short
ReceiveWire ==
    /\ ev_pc \in {"idle", "decoded"}
    /\ \E c \in U64s, n \in WireKeyLengths, seed \in 0..MaxKeySeed, cut \in {0, 1, 5} :
         LET w == encode_u64(c) \o encode_bytes(KeyBytes(seed, n))
         IN ev_wire' = SubSeq(w, 1, IF cut > Len(w) THEN 0 ELSE Len(w) - cut)
    /\ ev_handle' = NoHandle
    /\ ev_result' = [ok |-> FALSE, handle |-> NoHandle]
    /\ ev_pc' = "wire"
    /\ UNCHANGED compilerVars

DeserializeHandle ==
    /\ ev_pc = "wire"
    /\ ev_result' = EventHandle_deserialize(ev_wire)
    /\ ev_pc' = "decoded"
    /\ UNCHANGED <<ev_handle, ev_wire, compilerVars>>

InitEvent == CompilerInit({Compiler_default}) /\ EventIdle

NextEvent ==
    \/ NewHandle
    \/ SerializeHandle
    \/ ReceiveWire
    \/ DeserializeHandle

SpecEvent == InitEvent /\ [][NextEvent]_vars

----------------------------------------------------------------------------
(* Properties *)

Done == phase = "done"
Parsed == parse_program(self.code)
\* the dependency set resolve_default yields for the Compiler as the caller built it
DefaultSet ==
    IF self.skip_stdlib_deps THEN self.extra_deps ELSE <<"S1", "S2">> \o self.extra_deps
\* the dependency set resolve_forced_merge yields for it
ForcedSet == <<"S1", "S2">> \o self.extra_deps

IsPrefix(a, b) == Len(a) <= Len(b) /\ SubSeq(b, 1, Len(a)) = a

\* C1: a compile_module request on a unit that parses and holds 0 or at least 2
\* module definitions returns an ArityError value, and the emitter is not invoked.
C1_ArityError ==
    (Done /\ op \in ModuleOps /\ Parsed.ok /\ Len(Parsed.modules) # 1)
        => /\ out[1].status = "Err"
           /\ out[1].err = "ArityError"
           /\ out[1].g.emitted = <<>>

\* C2: the set that compile_program / compile_module resolve, hand to the emitter and
\* return is extras when skip-baseline is set and baseline ++ extras otherwise.
C2_ResolveDefault ==
    (Done /\ op \in ProgramOps \cup ModuleOps)
        => LET o == out[1]
           IN /\ Len(o.g.resolved) = (IF Parsed.ok THEN 1 ELSE 0)
              /\ \A i \in DOMAIN o.g.resolved : o.g.resolved[i].dset = DefaultSet
              /\ \A i \in DOMAIN o.g.emitted : o.g.emitted[i] = DefaultSet
              /\ (o.status = "Ok" /\ op \in {"into_compiled_program_and_deps",
                                             "into_program_and_deps"})
                    => o.ret.dset = DefaultSet
              /\ (~self.skip_stdlib_deps /\ self.extra_deps = <<>>)
                    => \A i \in DOMAIN o.g.resolved : Len(o.g.resolved[i].dset) = 2

C2_Witness ==
    /\ Done
    /\ op = "into_program_and_deps"
    /\ out[1].status = "Ok"
    /\ ~self.skip_stdlib_deps
    /\ self.extra_deps = <<"X2", "X1">>
    /\ out[1].ret.dset = <<"S1", "S2", "X2", "X1">>
    /\ out[1].g.emitted = <<(<<"S1", "S2", "X2", "X1">>)>>

C4_PayloadOrder ==
    (Done /\ op \in PayloadOps /\ out[1].status = "Ok")
        => LET program == out[1].g.program
               payload == out[1].ret.payload
           IN /\ Len(payload.modules) = Len(program.modules)
              /\ \A i \in 1..Len(program.modules) :
                   payload.modules[i] =
                     <<1, program.modules[i].addr, i, Cardinality(program.modules[i].links)>>
                       \o LinkBytes(program.modules[i].links)
              /\ payload.code = <<2, self.address, 0, Cardinality(Parsed.imports)>>
                                   \o LinkBytes(Parsed.imports)
              /\ payload.args = args
              /\ Len(program.modules) = Len(Parsed.modules)

C4_Witness ==
    /\ Done
    /\ op = "into_program"
    /\ out[1].status = "Ok"
    /\ Len(out[1].ret.payload.modules) = 2
    /\ out[1].ret.payload.modules[1] # out[1].ret.payload.modules[2]
    /\ args = <<"a2", "a1">>

StageError(stage) ==
    CASE stage = "parse" -> "ParseError"
      [] stage = "resolve" -> "ResolveError"
      [] stage = "emit" -> "CompileError"
      [] stage = "serialize" -> "SerializationError"

\* C5: the stages run in the order parse, resolve, emit, serialize; a request ends in
\* Success or in Failed with the error of the last stage it ran, and a request that
\* did not succeed returns nothing.
C5_PipelineOrder ==
    Done => LET o == out[1]
            IN /\ IsPrefix(o.g.trace, <<"parse", "resolve", "emit", "serialize">>)
               /\ o.status \in {"Ok", "Err"}
               /\ o.status = "Err" => o.err = StageError(o.g.trace[Len(o.g.trace)])
               /\ o.status # "Ok" => o.ret = NoRet

\* some artifact of the compiled program does not serialize
SomeSerializeFails(program) ==
    \/ ~serialize(program.script).ok
    \/ \E i \in 1..Len(program.modules) : ~serialize(program.modules[i]).ok

\* C6: when the script or a module of the compiled program fails to serialize, a
\* payload operation returns a SerializationError value and no payload.
C6_SerializationSurfaced ==
    (Done /\ op \in PayloadOps /\ out[1].g.emitted # <<>>
          /\ out[1].g.program # NoProgram /\ SomeSerializeFails(out[1].g.program))
        => /\ out[1].status = "Err"
           /\ out[1].err = "SerializationError"
           /\ out[1].ret = NoRet

\* every resolution of this Compiler since the last add_deps
AllResolutions == resLog \o (IF Done THEN out[1].g.resolved ELSE <<>>)
OfOwnExtras(r) == r.input = self.extra_deps
Consuming == {i \in DOMAIN AllResolutions : AllResolutions[i].consumed}

C8_BaselineExclusion ==
    (Done /\ op \in ProgramOps \cup ModuleOps /\ self.code.wellformed
          /\ "S1" \in self.code.imports)
        => /\ (self.skip_stdlib_deps /\ self.extra_deps = <<>>)
                => /\ out[1].g.emitted = <<(<<>>)>>
                   /\ out[1].status = "Err"
                   /\ out[1].err = "CompileError"
                   /\ out[1].ret = NoRet
           /\ ~self.skip_stdlib_deps
                => /\ \A i \in DOMAIN out[1].g.resolved : "S1" \in Range(out[1].g.resolved[i].dset)
                   /\ \A i \in DOMAIN out[1].g.emitted : "S1" \in Range(out[1].g.emitted[i])

DeclaredKeyLength(w) == w[9] + 256 * w[10] + 65536 * w[11]
WholeWire(w) == Len(w) >= 12 /\ w[12] = 0 /\ Len(w) = 12 + DeclaredKeyLength(w)

\* C10: a handle is written as its count, then the length and the bytes of its key,
\* and read back equal; a wire whose key is not 32 bytes long reads as an error.
C10_RoundTrip ==
    /\ (ev_pc \in {"wire", "decoded"} /\ ev_handle # NoHandle)
         => /\ Len(ev_wire) = 8 + 4 + 32
            /\ \A i \in 1..4 :
                 ev_wire[2 * i - 1] + 256 * ev_wire[2 * i] = ev_handle.count[i]
            /\ SubSeq(ev_wire, 9, 12) = <<32, 0, 0, 0>>
            /\ SubSeq(ev_wire, 13, 44) = ev_handle.key
    /\ (ev_pc = "decoded" /\ ev_handle # NoHandle)
         => (ev_result.ok /\ ev_result.handle = ev_handle)
    /\ (ev_pc = "decoded" /\ WholeWire(ev_wire) /\ DeclaredKeyLength(ev_wire) # 32)
         => (~ev_result.ok /\ ev_result.handle = NoHandle)
    /\ (ev_pc = "decoded" /\ ev_result.ok) => Len(ev_result.handle.key) = 32

C10_Witness ==
    /\ ev_pc = "decoded"
    /\ ev_handle.count = <<65535, 65535, 65535, 65535>>
    /\ ev_handle.key = KeyBytes(2, 32)
    /\ ev_result.ok
    /\ ev_result.handle = ev_handle

====
